---- MODULE Spec2Model ----
(***************************************************************************)
(* netcdf2html: the command line entry point (cli/convert.py main), the    *)
(* report run (Convert.run), the two colourizers (fragments/image.py) and  *)
(* the table fragment (fragments/table.py), as one sequential state        *)
(* machine.  A behaviour is one invocation of the program on one folder.   *)
(*                                                                         *)
(* Encodings.  An optional value (Python None or a value) is a sequence of *)
(* length 0 or 1.  A grid sample is an optional integer: None is NaN.  A   *)
(* filename is a tuple of one-character strings.  A time sample is         *)
(* <<year, month, day, hour>>; its string form starts "YYYY-MM-DD", so the *)
(* first ten characters are the first three fields and string order on     *)
(* them is lexicographic order on the fields.                              *)
(***************************************************************************)
EXTENDS Integers, Sequences, FiniteSets

\* Longest folder listing explored.
MaxFiles == 3

None == <<>>
Some(v) == <<v>>
NaN == None
IsNan(x) == x = NaN

\* Python truthiness of an optional string: None and "" are false.
Truthy(opt) == opt # None /\ opt[1] # ""

RECURSIVE SumSeq(_)
SumSeq(s) == IF s = <<>> THEN 0 ELSE Head(s) + SumSeq(Tail(s))

----------------------------------------------------------------------------
(* The folder's possible entries and what the dataset reader returns.      *)

NameA == <<"a", ".", "n", "c">>
NameB == <<"b", ".", "n", "c">>
NameC == <<"c", ".", "n", "c">>
NameD == <<"d", ".", "n", "c">>
NameE == <<"e", ".", "n", "c">>
NameK == <<"k", ".", "n", "c">>
NameL == <<"l", ".", "n", "c">>
NameX == <<"x", ".", "n", "c">>
NameT == <<"n", ".", "n", "c", "x">>

FilePool == {NameA, NameB, NameC, NameD, NameE, NameK, NameL, NameX, NameT}

\* One (y, x) grid, flattened row by row, whose first n samples are NaN.
GridWithNans(n, cells) == [i \in 1..cells |-> IF i <= n THEN NaN ELSE Some(270 + i)]

\* A variable laid out (time, y, x): its shape and one flattened grid per step.
Var3D(shape, steps) == [shape |-> shape, data |-> steps]

Scalar(nans) == Var3D(<<Len(nans), 2, 5>>, [t \in 1..Len(nans) |-> GridWithNans(nans[t], 10)])
Channel(samples) == Var3D(<<1, 1, Len(samples)>>, <<samples>>)
TimeCoord(sample) == [shape |-> <<1>>, data |-> <<sample>>]

Ramp == Channel(<<Some(0), Some(5), Some(10)>>)
Flat == Channel(<<Some(7), Some(7), Some(7)>>)
Holed == Channel(<<NaN, Some(0), Some(4)>>)

Unreadable == [openable |-> FALSE, vars |-> <<>>]
Readable(vars) == [openable |-> TRUE, vars |-> vars]

DatasetOf(name) ==
    CASE name = NameA -> Readable([time |-> TimeCoord(<<2020, 1, 1, 0>>),
                                   bt |-> Scalar(<<0>>), r |-> Ramp, g |-> Ramp, b |-> Ramp])
      [] name = NameB -> Readable([time |-> TimeCoord(<<2020, 1, 3, 0>>),
                                   bt |-> Scalar(<<1>>), r |-> Ramp, g |-> Ramp, b |-> Holed])
      [] name = NameC -> Readable([time |-> TimeCoord(<<2020, 1, 2, 0>>),
                                   bt |-> Scalar(<<2>>), r |-> Ramp, g |-> Ramp, b |-> Ramp])
      [] name = NameD -> Readable([time |-> TimeCoord(<<2020, 1, 2, 12>>),
                                   bt |-> Scalar(<<1, 1>>), r |-> Ramp, g |-> Ramp, b |-> Ramp])
      [] name = NameE -> Readable([time |-> TimeCoord(<<2020, 1, 1, 6>>),
                                   bt |-> Scalar(<<0>>), r |-> Flat, g |-> Ramp, b |-> Ramp])
      [] name = NameK -> Readable([time |-> TimeCoord(<<2020, 1, 4, 0>>)])
      [] name = NameL -> Readable([bt |-> Scalar(<<0>>), r |-> Ramp, g |-> Ramp, b |-> Ramp])
      [] OTHER -> Unreadable

HasVar(ds, v) == v \in DOMAIN ds.vars

----------------------------------------------------------------------------
(* Command lines.                                                          *)

ArgSpace ==
    [data_variable : {None, Some(""), Some("bt")},
     data_min : {None, Some(250)},
     data_max : {None, Some(300)},
     rgb : {<<None, None, None>>, <<Some("r"), None, None>>,
            <<Some("r"), Some("g"), Some("b")>>}]

\* Every listing of at most MaxFiles distinct entries of the pool.
Listings ==
    UNION {{s \in [1..n -> FilePool] : \A i, j \in 1..n : i # j => s[i] # s[j]} : n \in 0..MaxFiles}

VARIABLES args, folder, pc, stdout, error, conv, table, files, li, fi, cells,
          tempFiles, tempData, opens, outFile, nWrites

vars == <<args, folder, pc, stdout, error, conv, table, files, li, fi, cells,
          tempFiles, tempData, opens, outFile, nWrites>>

Init ==
    /\ args \in ArgSpace
    /\ folder \in Listings
    /\ pc = "main"
    /\ stdout = <<>>
    /\ error = "none"
    /\ conv = None
    /\ table = <<>>
    /\ files = <<>>
    /\ li = 1
    /\ fi = 1
    /\ cells = <<>>
    /\ tempFiles = {}
    /\ tempData = None
    /\ opens = 0
    /\ outFile = None
    /\ nWrites = 0

\* An uncaught exception ends the process.
Raise(exc) == pc' = "aborted" /\ error' = exc

----------------------------------------------------------------------------
(* main()                                                                  *)

RangeMessage == "Error - please specify --data-min and --data-max if providing --data-variable"

Main ==
    /\ pc = "main"
    /\ stdout' = IF args.data_variable # None
                    /\ (args.data_min = None \/ args.data_max = None)
                 THEN Append(stdout, RangeMessage)
                 ELSE stdout
    /\ conv' = Some([main_variable |-> args.data_variable,
                     red_variable |-> args.rgb[1],
                     green_variable |-> args.rgb[2],
                     blue_variable |-> args.rgb[3],
                     vmin |-> args.data_min,
                     vmax |-> args.data_max])
    /\ pc' = "run"
    /\ UNCHANGED <<args, folder, error, table, files, li, fi, cells,
                   tempFiles, tempData, opens, outFile, nWrites>>

Self == conv[1]

----------------------------------------------------------------------------
(* fragments/image.py                                                      *)

\* matplotlib's colormap lookup is opaque: a pixel is the colormap and the
\* position it is asked for, (value - vmin) / (vmax - vmin); NaN is the
\* colormap's "bad" position.  No clamping, no check of vmin < vmax.
save_image(arr, vmin, vmax) ==
    [i \in DOMAIN arr |->
        [cmap |-> "coolwarm",
         at |-> IF IsNan(arr[i]) THEN None ELSE Some(<<arr[i][1] - vmin, vmax - vmin>>)]]

SetMin(S) == CHOOSE m \in S : \A x \in S : m <= x
SetMax(S) == CHOOSE m \in S : \A x \in S : x <= m

\* One channel of save_image_falsecolour: min-max stretch to 0..255 and a
\* cast to uint8.  A NaN sample, and every sample of a channel whose maxv
\* equals minv (0/0), is NaN before the cast; casting NaN to uint8 is
\* undefined and yields the byte u.  Nothing is raised.
StretchChannel(arr, u) ==
    LET present == {arr[i][1] : i \in {k \in DOMAIN arr : ~IsNan(arr[k])}}
    IN  [i \in DOMAIN arr |->
            IF IsNan(arr[i]) \/ present = {} THEN u
            ELSE IF SetMax(present) = SetMin(present) THEN u
            ELSE (255 * (arr[i][1] - SetMin(present))) \div (SetMax(present) - SetMin(present))]

save_image_falsecolour(data_red, data_green, data_blue, u) ==
    LET alist == <<StretchChannel(data_red, u), StretchChannel(data_green, u),
                   StretchChannel(data_blue, u)>>
    IN  [i \in DOMAIN data_red |-> <<alist[1][i], alist[2][i], alist[3][i]>>]

\* The bytes an undefined NaN-to-uint8 cast can leave in a pixel.
UndefinedBytes == {0, 255}

inlined_image(content) == [mime |-> "image/png", charset |-> "US-ASCII", base64 |-> content]

ImageWidth == 500

InlineImageFragment(content, alt_text) ==
    [tag |-> "img", src |-> inlined_image(content), alt |-> alt_text, width |-> ImageWidth]

----------------------------------------------------------------------------
(* fragments/table.py                                                      *)

Text(s) == [str |-> s]
IsText(cell) == "str" \in DOMAIN cell

add_row(t, row) ==
    Append(t, [i \in DOMAIN row |->
                  IF IsText(row[i]) THEN [td |-> "text", text |-> row[i].str]
                  ELSE [td |-> "fragment", fragment |-> row[i]]])

----------------------------------------------------------------------------
(* Convert.run                                                             *)

HeaderFails == Self.main_variable = None \/ Self.vmin = None \/ Self.vmax = None

HeaderCells ==
    <<Text(<<"Acquired">>),
      Text(<<Self.main_variable[1], "(", Self.vmin[1], "-", Self.vmax[1], " K)">>),
      Text(<<"RGB=(", Self.red_variable, Self.green_variable, Self.blue_variable, ")">>)>>

\* Lines 49-56: the document, the table and its first row.  Adding None to a
\* string, or formatting None with %.0f, raises TypeError.
RunHeader ==
    /\ pc = "run"
    /\ IF HeaderFails
       THEN Raise("TypeError") /\ UNCHANGED table
       ELSE /\ table' = add_row(<<>>, HeaderCells)
            /\ pc' = "listdir"
            /\ UNCHANGED error
    /\ UNCHANGED <<args, folder, stdout, conv, files, li, fi, cells,
                   tempFiles, tempData, opens, outFile, nWrites>>

DatasetExt == <<".", "n", "c">>

EndsWith(name, suffix) ==
    /\ Len(name) >= Len(suffix)
    /\ SubSeq(name, Len(name) - Len(suffix) + 1, Len(name)) = suffix

\* str(ds["time"].data[0])[:10]
TimeKey(sample) == SubSeq(sample, 1, 3)

\* Python's < on two "YYYY-MM-DD" strings.
KeyLess(a, b) ==
    \/ a[1] < b[1]
    \/ a[1] = b[1] /\ a[2] < b[2]
    \/ a[1] = b[1] /\ a[2] = b[2] /\ a[3] < b[3]

\* Lines 58-62, one folder entry.
ListEntry ==
    /\ pc = "listdir"
    /\ li <= Len(folder)
    /\ LET filename == folder[li]
           ds == DatasetOf(filename)
       IN  IF ~EndsWith(filename, DatasetExt)
           THEN li' = li + 1 /\ UNCHANGED <<pc, error, files, opens>>
           ELSE /\ opens' = opens + 1
                /\ IF ~ds.openable
                   THEN Raise("OpenError") /\ UNCHANGED <<files, li>>
                   ELSE IF ~HasVar(ds, "time")
                   THEN Raise("KeyError") /\ UNCHANGED <<files, li>>
                   ELSE /\ files' = Append(files, <<TimeKey(ds.vars.time.data[1]), filename>>)
                        /\ li' = li + 1
                        /\ UNCHANGED <<pc, error>>
    /\ UNCHANGED <<args, folder, stdout, conv, table, fi, cells,
                   tempFiles, tempData, outFile, nWrites>>

\* An unstable sort: item goes in front of the elements that share its key.
InsertPointBeforeTies(sorted, item) ==
    Cardinality({i \in DOMAIN sorted : KeyLess(sorted[i][1], item[1])})

\* Where a stable sort puts item: behind every element whose key is not greater.
InsertPoint(sorted, item) ==
    Cardinality({i \in DOMAIN sorted : ~KeyLess(item[1], sorted[i][1])})

InsertByKey(sorted, item) ==
    LET n == InsertPoint(sorted, item)
    IN  SubSeq(sorted, 1, n) \o <<item>> \o SubSeq(sorted, n + 1, Len(sorted))

RECURSIVE SortFrom(_, _)
SortFrom(done, rest) ==
    IF rest = <<>> THEN done ELSE SortFrom(InsertByKey(done, Head(rest)), Tail(rest))

\* The sort left out: the files stay in listing order.
ListingOrder(s) == s

\* sorted(files, key=lambda item: item[0])
SortedByKey(s) == SortFrom(<<>>, s)

\* Line 63.
SortFiles ==
    /\ pc = "listdir"
    /\ li > Len(folder)
    /\ files' = SortedByKey(files)
    /\ pc' = "loop"
    /\ UNCHANGED <<args, folder, stdout, error, conv, table, li, fi, cells,
                   tempFiles, tempData, opens, outFile, nWrites>>

CurTimestamp == files[fi][1]
CurFilename == files[fi][2]
CurDs == DatasetOf(CurFilename)

\* Lines 65-67.
BeginFile ==
    /\ pc = "loop"
    /\ fi <= Len(files)
    /\ opens' = opens + 1
    /\ IF ~CurDs.openable
       THEN Raise("OpenError") /\ UNCHANGED cells
       ELSE /\ cells' = <<Text(CurTimestamp)>>
            /\ pc' = IF Truthy(Self.main_variable) THEN "gate" ELSE "rgb"
            /\ UNCHANGED error
    /\ UNCHANGED <<args, folder, stdout, conv, table, files, li, fi,
                   tempFiles, tempData, outFile, nWrites>>

MissingLimitNum == 1
MissingLimitDen == 10

\* np.count_nonzero(np.isnan(da.data)): every sample of every time step.
CountNans(da) ==
    SumSeq([t \in DOMAIN da.data |->
               Cardinality({i \in DOMAIN da.data[t] : IsNan(da.data[t][i])})])

\* count_nans / (da.shape[1] * da.shape[2]) > 0.1
TooManyMissing(da) ==
    CountNans(da) * MissingLimitDen > MissingLimitNum * (da.shape[2] * da.shape[3])

\* The gate dropping only the image: the row is still built and appended.
MainGateSkipsImageOnly ==
    /\ pc = "gate"
    /\ IF ~HasVar(CurDs, Self.main_variable[1])
       THEN Raise("KeyError")
       ELSE IF TooManyMissing(CurDs.vars[Self.main_variable[1]])
       THEN pc' = "rgb" /\ UNCHANGED error
       ELSE pc' = "main_tmp" /\ UNCHANGED error
    /\ UNCHANGED <<args, folder, stdout, conv, table, files, li, fi, cells,
                   tempFiles, tempData, opens, outFile, nWrites>>

\* Lines 68-72.
MainGate ==
    /\ pc = "gate"
    /\ IF ~HasVar(CurDs, Self.main_variable[1])
       THEN Raise("KeyError") /\ UNCHANGED fi
       ELSE IF TooManyMissing(CurDs.vars[Self.main_variable[1]])
       THEN fi' = fi + 1 /\ pc' = "loop" /\ UNCHANGED error
       ELSE pc' = "main_tmp" /\ UNCHANGED <<fi, error>>
    /\ UNCHANGED <<args, folder, stdout, conv, table, files, li, cells,
                   tempFiles, tempData, opens, outFile, nWrites>>

Kinds == {"main", "rgb"}
PcOf(kind, step) ==
    CASE step = "tmp" -> IF kind = "main" THEN "main_tmp" ELSE "rgb_tmp"
      [] step = "save" -> IF kind = "main" THEN "main_save" ELSE "rgb_save"
      [] step = "inline" -> IF kind = "main" THEN "main_inline" ELSE "rgb_inline"
      [] step = "exit" -> IF kind = "main" THEN "main_exit" ELSE "rgb_exit"

\* The name NamedTemporaryFile picks: fresh for every image.
TempPath(kind) == <<fi, kind>>

\* Lines 73 and 80: entering the with block creates the file.
CreateTemp ==
    /\ \E kind \in Kinds :
          /\ pc = PcOf(kind, "tmp")
          /\ tempFiles' = tempFiles \cup {TempPath(kind)}
          /\ pc' = PcOf(kind, "save")
    /\ tempData' = None
    /\ UNCHANGED <<args, folder, stdout, error, conv, table, files, li, fi, cells,
                   opens, outFile, nWrites>>

\* Line 74.
SaveMain ==
    /\ pc = "main_save"
    /\ tempData' = Some(save_image(CurDs.vars[Self.main_variable[1]].data[1],
                                   Self.vmin[1], Self.vmax[1]))
    /\ pc' = "main_inline"
    /\ UNCHANGED <<args, folder, stdout, error, conv, table, files, li, fi, cells,
                   tempFiles, opens, outFile, nWrites>>

AllChannels ==
    Truthy(Self.red_variable) /\ Truthy(Self.green_variable) /\ Truthy(Self.blue_variable)

\* Lines 76-79.
ReadChannels ==
    /\ pc = "rgb"
    /\ IF ~AllChannels
       THEN pc' = "add_row" /\ UNCHANGED error
       ELSE IF \E v \in {Self.red_variable[1], Self.green_variable[1], Self.blue_variable[1]} :
                   ~HasVar(CurDs, v)
       THEN Raise("KeyError")
       ELSE pc' = "rgb_tmp" /\ UNCHANGED error
    /\ UNCHANGED <<args, folder, stdout, conv, table, files, li, fi, cells,
                   tempFiles, tempData, opens, outFile, nWrites>>

\* Line 81.
SaveFalseColour ==
    /\ pc = "rgb_save"
    /\ \E u \in UndefinedBytes :
          tempData' = Some(save_image_falsecolour(CurDs.vars[Self.red_variable[1]].data[1],
                                                  CurDs.vars[Self.green_variable[1]].data[1],
                                                  CurDs.vars[Self.blue_variable[1]].data[1], u))
    /\ pc' = "rgb_inline"
    /\ UNCHANGED <<args, folder, stdout, error, conv, table, files, li, fi, cells,
                   tempFiles, opens, outFile, nWrites>>

\* Lines 75 and 82.
InlineImage ==
    /\ \E kind \in Kinds :
          /\ pc = PcOf(kind, "inline")
          /\ pc' = PcOf(kind, "exit")
    /\ cells' = Append(cells, InlineImageFragment(tempData[1], CurFilename))
    /\ UNCHANGED <<args, folder, stdout, error, conv, table, files, li, fi,
                   tempFiles, tempData, opens, outFile, nWrites>>

\* A temporary file made with delete=False: leaving the block keeps it.
Leaked(existing, path) == existing

\* What leaving the with block leaves of the temporary files.
Released(existing, path) == existing \ {path}

\* Leaving the with block normally.
ExitWith ==
    /\ \E kind \in Kinds :
          /\ pc = PcOf(kind, "exit")
          /\ tempFiles' = Released(tempFiles, TempPath(kind))
          /\ pc' = IF kind = "main" THEN "rgb" ELSE "add_row"
    /\ tempData' = None
    /\ UNCHANGED <<args, folder, stdout, error, conv, table, files, li, fi, cells,
                   opens, outFile, nWrites>>

\* The temporary file cannot be created: nothing to release.
CreateTempFails ==
    /\ pc \in {PcOf(kind, "tmp") : kind \in Kinds}
    /\ Raise("OSError:tempfile")
    /\ UNCHANGED <<args, folder, stdout, conv, table, files, li, fi, cells,
                   tempFiles, tempData, opens, outFile, nWrites>>

\* Writing or reading back the image fails inside the with block: the block
\* is left by the exception.
ImageIOFails ==
    /\ \E kind \in Kinds :
          /\ pc \in {PcOf(kind, "save"), PcOf(kind, "inline")}
          /\ tempFiles' = Released(tempFiles, TempPath(kind))
    /\ tempData' = None
    /\ Raise("OSError:image")
    /\ UNCHANGED <<args, folder, stdout, conv, table, files, li, fi, cells,
                   opens, outFile, nWrites>>

\* builder.get_html(): the builder is opaque; the document is its table.
get_html(t) == [title |-> "NetCDF to HTML", body |-> t]

\* The document saved after every row instead of once at the end.
AddRowAndSave ==
    /\ pc = "add_row"
    /\ table' = add_row(table, cells)
    /\ fi' = fi + 1
    /\ pc' = "loop"
    /\ outFile' = Some(get_html(table'))
    /\ nWrites' = nWrites + 1
    /\ UNCHANGED <<args, folder, stdout, error, conv, files, li, cells,
                   tempFiles, tempData, opens>>

\* Line 83.
AddRow ==
    /\ pc = "add_row"
    /\ table' = add_row(table, cells)
    /\ fi' = fi + 1
    /\ pc' = "loop"
    /\ UNCHANGED <<args, folder, stdout, error, conv, files, li, cells,
                   tempFiles, tempData, opens, outFile, nWrites>>

\* Lines 85-87.
WriteOutput ==
    /\ pc = "loop"
    /\ fi > Len(files)
    /\ outFile' = Some(get_html(table))
    /\ nWrites' = nWrites + 1
    /\ pc' = "done"
    /\ UNCHANGED <<args, folder, stdout, error, conv, table, files, li, fi, cells,
                   tempFiles, tempData, opens>>

\* Line 86: the output path cannot be opened for writing.
WriteOutputFails ==
    /\ pc = "loop"
    /\ fi > Len(files)
    /\ Raise("OSError:output")
    /\ UNCHANGED <<args, folder, stdout, conv, table, files, li, fi, cells,
                   tempFiles, tempData, opens, outFile, nWrites>>

Next ==
    \/ Main
    \/ RunHeader
    \/ ListEntry
    \/ SortFiles
    \/ BeginFile
    \/ MainGate
    \/ CreateTemp
    \/ SaveMain
    \/ ReadChannels
    \/ SaveFalseColour
    \/ InlineImage
    \/ ExitWith
    \/ CreateTempFails
    \/ ImageIOFails
    \/ AddRow
    \/ WriteOutput
    \/ WriteOutputFails

Spec == Init /\ [][Next]_vars

----------------------------------------------------------------------------
(* Properties.                                                             *)

Started == conv # None
Finished == pc = "done"
MainConfigured == Started /\ Truthy(Self.main_variable)
ChannelsConfigured == Started /\ AllChannels

IsDataset(name) == EndsWith(name, DatasetExt)
KeyOfFile(name) == TimeKey(DatasetOf(name).vars.time.data[1])
ListingPos(name) == CHOOSE i \in DOMAIN folder : folder[i] = name
NumDatasets == Cardinality({i \in DOMAIN folder : IsDataset(folder[i])})

DataRowIdx == 2..Len(table)
RowKey(i) == table[i][1].text
RowFile(i) == table[i][2].fragment.alt
RowsOf(name) == {i \in DataRowIdx : Len(table[i]) >= 2 /\ RowFile(i) = name}

\* The gate as line 71 computes it, written out on the file's data.
AllNans(name) ==
    LET da == DatasetOf(name).vars.bt
    IN  SumSeq([t \in DOMAIN da.data |->
                   Cardinality({i \in DOMAIN da.data[t] : da.data[t][i] = NaN})])
GridCells(name) == Len(DatasetOf(name).vars.bt.data[1])
FailsGate(item) == 10 * AllNans(item[2]) > GridCells(item[2])
PassesGate(item) == ~FailsGate(item)

\* The missing fraction of the grid at time index 0 alone.
NansAtTimeZero(name) ==
    LET g == DatasetOf(name).vars.bt.data[1]
    IN  Cardinality({i \in DOMAIN g : g[i] = NaN})
TimeZeroOverLimit(name) == 10 * NansAtTimeZero(name) > GridCells(name)

\* C1: the data rows of the table are in non-decreasing TimeKey order at
\* every point of every run, whatever the folder holds and in whatever order
\* the listing returns it.
C1_RowsInTimeKeyOrder ==
    \A i, j \in DataRowIdx : i < j => ~KeyLess(RowKey(j), RowKey(i))

\* A finished run with three data rows whose files were listed out of order.
C1_Witness ==
    /\ Finished
    /\ Len(table) = 4
    /\ \E i \in 1..(Len(folder) - 1) :
          /\ IsDataset(folder[i]) /\ IsDataset(folder[i + 1])
          /\ KeyLess(KeyOfFile(folder[i + 1]), KeyOfFile(folder[i]))

\* C2: with a main variable configured, a file has no row exactly when more
\* than 10% of the samples of its grid at time index 0 are missing, also for
\* a file with several time steps.  (The statement of the claim; the code
\* counts the NaNs of all time steps.)
C2_GateIsTimeZeroFraction ==
    (Finished /\ MainConfigured) =>
        \A k \in DOMAIN files :
            (RowsOf(files[k][2]) = {}) <=> TimeZeroOverLimit(files[k][2])

\* C3: after a successful run with a main variable, the table is the header
\* row followed by exactly one row for each file that passes the gate, in
\* the order of the sorted files, and none for a file that fails it, with or
\* without the colour channels; the data rows are no more than the files.
C3_OneRowPerPassingFile ==
    (Finished /\ MainConfigured) =>
        LET passing == SelectSeq(files, PassesGate)
        IN  /\ table[1] = add_row(<<>>, HeaderCells)[1]
            /\ Len(table) = 1 + Len(passing)
            /\ Len(table) - 1 <= NumDatasets
            /\ \A k \in DOMAIN passing :
                  /\ Len(table[k + 1]) = (IF AllChannels THEN 3 ELSE 2)
                  /\ RowKey(k + 1) = passing[k][1]
                  /\ RowFile(k + 1) = passing[k][2]

\* A finished run, main variable and channels configured, where one file
\* was dropped by the gate and another has its row.
C3_Witness ==
    /\ Finished /\ MainConfigured /\ ChannelsConfigured
    /\ Len(table) >= 2
    /\ \E k \in DOMAIN files : FailsGate(files[k])

\* Every entry of the folder is a readable dataset with the three channels.
SoundFolder ==
    \A i \in DOMAIN folder :
        /\ DatasetOf(folder[i]).openable
        /\ {"time", "r", "g", "b"} \subseteq DOMAIN DatasetOf(folder[i]).vars

\* C4: with the three channels and no main variable, the run completes
\* (short of an I/O failure) and every enumerated file has a row of its
\* TimeKey and one false-colour image.  (The statement of the claim.)
C4_FalseColourOnlyRuns ==
    (ChannelsConfigured /\ ~Truthy(Self.main_variable) /\ SoundFolder) =>
        /\ pc = "aborted" => error \in {"OSError:tempfile", "OSError:image", "OSError:output"}
        /\ Finished =>
              /\ Len(table) = 1 + Len(files)
              /\ \A k \in DOMAIN files :
                    /\ Len(table[k + 1]) = 2
                    /\ RowKey(k + 1) = files[k][1]
                    /\ RowFile(k + 1) = files[k][2]

\* C5: a file that cannot be opened, or lacks the time coordinate or a
\* configured variable, never ends the run.  (The statement of the claim.)
C5_PerFileFailureIsolated ==
    ~(pc = "aborted" /\ error \in {"OpenError", "KeyError"})

\* C6: a main variable without both range bounds is reported and the
\* program stops there: run() is never entered, no input file is opened and
\* nothing is written.  (The statement of the claim.)
C6_RangeValidatedBeforeRun ==
    (args.data_variable # None /\ (args.data_min = None \/ args.data_max = None)) =>
        /\ pc # "main" => stdout = <<RangeMessage>>
        /\ opens = 0
        /\ outFile = None
        /\ pc \notin {"run", "listdir", "loop", "done"}

\* C7: at most one temporary image file exists at any time, and none exists
\* before an image is started, when the row is appended, when the next file
\* is begun, or when the run has ended, normally or by an error.
C7_TempFilesScoped ==
    /\ Cardinality(tempFiles) <= 1
    /\ pc \in {"main_tmp", "rgb", "rgb_tmp", "add_row", "loop", "done", "aborted"}
          => tempFiles = {}

\* A run ended by a failure inside the with block of a file's second image,
\* after earlier rows with their images were appended.
C7_Witness ==
    /\ pc = "aborted" /\ error = "OSError:image"
    /\ Len(cells) = 2
    /\ Len(table) >= 2
    /\ tempFiles = {}

\* A channel whose largest and smallest present samples are equal.
FlatChannel(grid) ==
    \A i, j \in DOMAIN grid : (grid[i] # NaN /\ grid[j] # NaN) => grid[i] = grid[j]
HasFlatChannel(name) ==
    \E v \in {"r", "g", "b"} : FlatChannel(DatasetOf(name).vars[v].data[1])

\* C8: save_image_falsecolour never returns an image for grids with a
\* channel whose maximum equals its minimum.  (The statement of the claim.)
C8_DegenerateRangeRaises ==
    pc = "rgb_inline" => ~HasFlatChannel(CurFilename)

\* C9: once sorted, files holds every folder entry that ends in the dataset
\* extension and nothing else, each once, in TimeKey order, entries of equal
\* TimeKey in listing order; and in a finished run two files that share a
\* TimeKey and pass the gate each have their own row, in listing order.
C9_StableNoDedup ==
    pc \in {"loop", "gate", "rgb", "add_row", "done"} =>
        /\ Len(files) = NumDatasets
        /\ \A i \in DOMAIN folder :
              IsDataset(folder[i]) =>
                  \E k \in DOMAIN files : files[k] = <<KeyOfFile(folder[i]), folder[i]>>
        /\ \A k, l \in DOMAIN files :
              k < l => /\ ~KeyLess(files[l][1], files[k][1])
                       /\ files[k][1] = files[l][1]
                             => ListingPos(files[k][2]) < ListingPos(files[l][2])
        /\ (Finished /\ MainConfigured) =>
              \A k, l \in DOMAIN files :
                  (k < l /\ files[k][1] = files[l][1]
                         /\ PassesGate(files[k]) /\ PassesGate(files[l]))
                      => \E i, j \in DataRowIdx :
                            /\ i < j
                            /\ RowsOf(files[k][2]) = {i}
                            /\ RowsOf(files[l][2]) = {j}

\* A finished run over a folder with a foreign entry and two datasets of
\* one TimeKey, both with a row.
C9_Witness ==
    /\ Finished /\ MainConfigured
    /\ Len(files) < Len(folder)
    /\ \E k \in 1..(Len(files) - 1) :
          /\ files[k][1] = files[k + 1][1]
          /\ RowsOf(files[k][2]) # {} /\ RowsOf(files[k + 1][2]) # {}

\* C10: the document is written at most once, only when every enumerated
\* file has been processed or skipped, it is the serialization of the table
\* as it stands (no row was added since), and an aborted run wrote nothing.
C10_WrittenOnceAtEnd ==
    /\ nWrites <= 1
    /\ outFile # None =>
          /\ Finished /\ nWrites = 1
          /\ li > Len(folder) /\ fi > Len(files)
          /\ outFile[1] = get_html(table)
    /\ pc = "aborted" => (outFile = None /\ nWrites = 0)

\* A finished run that wrote the document with two rows and one file skipped.
C10_Witness ==
    /\ Finished /\ nWrites = 1 /\ outFile # None
    /\ Len(table) = 3
    /\ Len(files) = 3
====
